---- MODULE Spec2Model ----
(***************************************************************************)
(* The capture-and-infer polling loop of the two detection screens:        *)
(*   frontend/app/(tabs)/index.tsx   (screen = "tabs")                      *)
(*   frontend/app/index.tsx          (screen = "query": adds the smart     *)
(*                                    query and the session gate)          *)
(*                                                                         *)
(* A React function component is re-rendered after every state change;     *)
(* every function defined in its body is a closure over the state values   *)
(* of the render that created it.  The detection effect lists only         *)
(* [isDetecting, permission?.granted] as dependencies, so the runCycle of  *)
(* one effect instance keeps calling the captureAndSend of the render in   *)
(* which that effect ran: the isSending it tests is the value of that      *)
(* render (capIsSending below), while cameraRef.current and the effect's   *)
(* own `cancelled` variable are read live.  Handlers bound to buttons are  *)
(* those of the latest render and see the current state.                   *)
(*                                                                         *)
(* One action is one macrotask: a button press, a timer firing, or the     *)
(* resolution of an awaited promise, together with the promise             *)
(* continuations, the re-render and the effects it triggers.               *)
(***************************************************************************)
EXTENDS Integers, Sequences, FiniteSets, TLC

\* ------------------------------------------------------------------ bounds
MaxOps == 2        \* capture/request round trips tracked at the same time
MaxTimers == 2     \* setTimeout handles tracked at the same time
MaxItems == 3      \* Parse specification: length of the objects array
MaxQuestionLen == 3  \* Parse specification: chunks of the typed question
MaxCalls == 2      \* Speakers specification: calls outstanding at a time
MaxRecordings == 2 \* Speakers specification: Recording objects alive

\* --------------------------------------------------------- program constants
RearmDelayMs == 1500
DefaultDistance == 0

VARIABLES
  screen,            \* which of the two screens this instance is
  permission,        \* useCameraPermissions(): "null" | "granted" | "denied"
  session,           \* query screen: TRUE when a Session object is held
  isSending,         \* useState(false)
  alertText,         \* useState('')
  error,             \* useState('')
  isDetecting,       \* useState(false)
  detections,        \* useState<Detection[]>([])
  userQuestion,      \* useState('') (query screen)
  detectionLoopRef,  \* useRef: handle of the last timer set, 0 for null
  timers,            \* pending setTimeout(runCycle, 1500) callbacks
  ops,               \* outstanding captureAndSend / handleSmartQuery calls
  speech,            \* utterances held by the text-to-speech collaborator
  last,              \* observation only: the outcome the last step applied
  input,             \* Parse specification: the response body under study
  mounted,           \* Teardown specification: the screen is mounted
  request,           \* Press specification: the requestPermission() call a
                     \* press of handleToggleDetection is suspended at
  \* The speaker screen (speakers.tsx), Speakers specification:
  hasPermission,     \* useState<boolean | null>(null): "null"|"granted"|"denied"
  recording,         \* useState<Audio.Recording | null>(null): 0 for null
  isRecording,       \* useState(false)
  isProcessing,      \* useState(false)
  speakers,          \* useState<Speaker[]>([])
  audioError,        \* the speaker screen's useState('') named error
  calls,             \* outstanding startRecording / stopRecording /
                     \* processAudio calls
  recorders,         \* Recording objects created and not yet unloaded
  lastAudio          \* observation only: what the last step of the
                     \* speaker screen applied

speakerVars == <<hasPermission, recording, isRecording, isProcessing,
                 speakers, audioError, calls, recorders, lastAudio>>

\* The state of the detection screens.
detectionVars == <<screen, permission, session, isSending, alertText, error,
                   isDetecting, detections, userQuestion, detectionLoopRef,
                   timers, ops, speech, last, input, mounted, request>>

vars == <<detectionVars, speakerVars>>

\* ------------------------------------------------------------------- texts
\* A text is a sequence of chunks; the chunk " " is a whitespace character
\* and every other chunk is a run of non-whitespace characters.
SP == " "
EmptyText == <<>>

RECURSIVE trimStart(_)
trimStart(t) ==
  IF t = <<>> THEN <<>>
  ELSE IF Head(t) = SP THEN trimStart(Tail(t)) ELSE t

RECURSIVE trimEnd(_)
trimEnd(t) ==
  IF t = <<>> THEN <<>>
  ELSE IF t[Len(t)] = SP THEN trimEnd(SubSeq(t, 1, Len(t) - 1)) ELSE t

trim(t) == trimEnd(trimStart(t))

DefaultQuestion ==
  <<"What important things are in front of me and where are they?">>

\* Variant: the question is sent as typed.
questionToSend_noTrim(q) == IF q # EmptyText THEN q ELSE DefaultQuestion

\* userQuestion.trim() || 'What important things ...'
questionToSend(q) == IF trim(q) # EmptyText THEN trim(q) ELSE DefaultQuestion

UserQuestions == { <<>>, <<SP, "door?", SP>> }

\* ----------------------------------------------------------- JSON payloads
\* An optional JSON field: present = FALSE stands for undefined / null.
NoText == [present |-> FALSE, text |-> EmptyText]
SomeText(t) == [present |-> TRUE, text |-> t]
\* A distance field holds any JSON value: numeric = FALSE stands for a value
\* that Number() does not convert to a number (a string such as "far").
NoNum == [present |-> FALSE, numeric |-> TRUE, n |-> 0]
SomeNum(n) == [present |-> TRUE, numeric |-> TRUE, n |-> n]
NotANumber == [present |-> TRUE, numeric |-> FALSE, n |-> 0]
NoStr == [present |-> FALSE, s |-> ""]
SomeStr(s) == [present |-> TRUE, s |-> s]

EmptyItem == [label |-> NoStr, distance |-> NoNum, direction |-> NoStr,
              risk |-> NoStr]

Item(l, d, dir, r) == [label |-> SomeStr(l), distance |-> SomeNum(d),
                       direction |-> SomeStr(dir), risk |-> SomeStr(r)]

\* objects.isArray = FALSE: the field is absent or is not an array.
\* isNull = TRUE: the body is the JSON value null, which has no fields.
EmptyBody == [isNull |-> FALSE,
              objects |-> [isArray |-> FALSE, items |-> <<>>],
              alert_text |-> NoText, answer_text |-> NoText]

NullBody == [EmptyBody EXCEPT !.isNull = TRUE]

SampleBody ==
  [isNull |-> FALSE,
   objects |-> [isArray |-> TRUE,
               items |-> <<Item("chair", 2, "left", "caution"), EmptyItem>>],
   alert_text |-> SomeText(<<"Stop">>),
   answer_text |-> SomeText(<<SP, "Stop", SP>>)]

Bodies == { EmptyBody, SampleBody }

StatusCodes == {200, 500}
responseOk(status) == status >= 200 /\ status <= 299

\* Variant: the message does not include the status.
ServerError_generic(status) == "Server error"

\* `Server error: ${response.status}`
ServerError(status) ==
  IF status = 500 THEN "Server error: 500"
  ELSE IF status = 404 THEN "Server error: 404"
  ELSE "Server error"

\* A thrown or rejected value: message absent stands for a value without
\* one; status (observation only) is the response status that made the code
\* throw, 0 when the value comes from the camera or the transport.
Rejections ==
  { [hasMessage |-> TRUE, message |-> "Network request failed", status |-> 0],
    [hasMessage |-> FALSE, message |-> "", status |-> 0] }

\* What takePictureAsync rejects with.
CameraRejections ==
  { [hasMessage |-> TRUE, message |-> "Failed to capture image",
     status |-> 0] }

\* The TypeError thrown by json.objects when json is null.
nullBodyError ==
  [hasMessage |-> TRUE, message |-> "Cannot read property 'objects' of null",
   status |-> 0]

\* new Error(`Server error: ${response.status}`)
statusError(status) ==
  [hasMessage |-> TRUE, message |-> ServerError(status), status |-> status]

errorMessage(err) ==
  IF err.hasMessage THEN err.message ELSE "Unable to contact backend."

\* -------------------------------------------------------------- detections
\* A JavaScript number: nan = TRUE is NaN.
NaN == [nan |-> TRUE, n |-> 0]
Num(n) == [nan |-> FALSE, n |-> n]

\* Number(value)
Number(v) == IF v.numeric THEN Num(v.n) ELSE NaN

toDetection(item) ==
  [label |-> IF item.label.present THEN item.label.s ELSE "Unknown",
   distance |-> Number(IF item.distance.present THEN item.distance
                       ELSE SomeNum(DefaultDistance)),
   direction |-> IF item.direction.present THEN item.direction.s
                 ELSE "center",
   risk |-> IF item.risk.present THEN item.risk.s ELSE "clear"]

\* (a, b) => a.distance - b.distance; sort reads a NaN result as +0.
compareDistance(a, b) ==
  IF a.distance.nan \/ b.distance.nan THEN 0
  ELSE a.distance.n - b.distance.n

\* Array.prototype.sort is stable: x goes after every element that does not
\* compare greater than it.
RECURSIVE insertSorted(_, _)
insertSorted(x, s) ==
  IF s = <<>> THEN <<x>>
  ELSE IF compareDistance(Head(s), x) > 0 THEN <<x>> \o s
  ELSE <<Head(s)>> \o insertSorted(x, Tail(s))

RECURSIVE sortByDistance(_)
sortByDistance(s) ==
  IF s = <<>> THEN <<>>
  ELSE insertSorted(s[Len(s)], sortByDistance(SubSeq(s, 1, Len(s) - 1)))

\* Variant: the objects field is mapped whatever it is.
objectsArray_noArrayCheck(json) == json.objects.items

\* Array.isArray(json.objects) ? json.objects : []
objectsArray(json) ==
  IF json.objects.isArray THEN json.objects.items ELSE <<>>

mapped(json) ==
  [i \in 1..Len(objectsArray(json)) |-> toDetection(objectsArray(json)[i])]

parsedDetections(json) == sortByDistance(mapped(json))

\* The comparator is a consistent comparator for s unless a NaN distance
\* compares equal to two distances that differ.
consistentComparator(s) ==
  ~ \E i, j, k \in DOMAIN s :
       /\ s[i].distance.nan
       /\ ~s[j].distance.nan /\ ~s[k].distance.nan
       /\ s[j].distance.n # s[k].distance.n

permutations(s) ==
  { [i \in DOMAIN s |-> s[f[i]]] :
      f \in {g \in [DOMAIN s -> DOMAIN s] :
                \A a, b \in DOMAIN s : a # b => g[a] # g[b]} }

\* What the engine may leave in parsedDetections: the stable sort, or, with
\* a comparator that is not consistent, any order (ECMAScript leaves the
\* order to the implementation).
parseOutcomes(json) ==
  IF consistentComparator(mapped(json)) THEN {parsedDetections(json)}
  ELSE permutations(mapped(json))

\* ------------------------------------------------------------ state shapes
\* ops holds the outstanding calls in the order their captures were started.
\* A call is [kind, pc, cancelled, capIsSending, question, sent, status,
\* overtaken]:
\*   kind          "poll" (captureAndSend called by runCycle) or "query"
\*   pc            the await it is suspended at: "capture", "fetch", "json"
\*   cancelled     the cancelled variable of the effect instance it runs in
\*   capIsSending  the isSending its captureAndSend closure tests
\*   question      the userQuestion its handleSmartQuery closure reads
\*   sent          the question field of the request it has issued
\*   status        the status of the response it has received, 0 before
\*   overtaken     observation only: a call started later has already
\*                 applied its outcome
Outstanding == DOMAIN ops
PollOps == {i \in DOMAIN ops : ops[i].kind = "poll"}
QueryOps == {i \in DOMAIN ops : ops[i].kind = "query"}

TimerIds == 1..MaxTimers

removeAt(o, i) == SubSeq(o, 1, i - 1) \o SubSeq(o, i + 1, Len(o))

\* The call at i returns: the calls started before it are still outstanding.
returnFrom(o, i) ==
  removeAt([j \in DOMAIN o |-> IF j < i THEN [o[j] EXCEPT !.overtaken = TRUE]
                               ELSE o[j]], i)

Event(ev, kind, cancelled) ==
  [ev |-> ev, kind |-> kind, cancelled |-> cancelled, status |-> 0]

\* cameraRef.current is set by the CameraView ref callback, so it is non-null
\* exactly while the main view (the one holding the camera and the buttons)
\* is rendered.
cameraRef ==
  /\ mounted
  /\ permission = "granted"
  /\ (screen = "query" => session)

\* The speaker screen after construction.
InitSpeakers ==
  /\ hasPermission = "null"
  /\ recording = 0
  /\ isRecording = FALSE
  /\ isProcessing = FALSE
  /\ speakers = <<>>
  /\ audioError = ""
  /\ calls = <<>>
  /\ recorders = {}
  /\ lastAudio = [ev |-> "other", json |-> 0]

Init ==
  /\ screen \in {"tabs", "query"}
  /\ permission = "null"
  /\ session = FALSE
  /\ isSending = FALSE
  /\ alertText = EmptyText
  /\ error = ""
  /\ isDetecting = FALSE
  /\ detections = <<>>
  /\ userQuestion = EmptyText
  /\ detectionLoopRef = 0
  /\ timers = {}
  /\ ops = <<>>
  /\ speech = <<>>
  /\ last = Event("other", "idle", FALSE)
  /\ input = EmptyBody
  /\ mounted = TRUE
  /\ request = "none"
  /\ InitSpeakers

\* --------------------------------------------------------- code decisions
\* Variant: the guard never lets a call through.
guardPasses_never(camera, sending) == FALSE

\* Variant: the guard does not look at the camera handle.
guardPasses_ignoresCamera(camera, sending) == ~sending

\* captureAndSend / handleSmartQuery: if (!cameraRef.current || isSending) return;
guardPasses(camera, sending) == camera /\ ~sending

\* Variant: the check after the await ignores the cancelled variable.
rearmAllowed_ignoresCancelled(cancelled, capIsDetecting) == capIsDetecting

\* Variant: runCycle never sets the timer.
rearmAllowed_never(cancelled, capIsDetecting) == FALSE

\* runCycle after the await: if (cancelled || !isDetecting) return;
\* isDetecting is the value of the render in which the effect ran, and the
\* effect reaches runCycle only when that value is true.
rearmAllowed(cancelled, capIsDetecting) == ~(cancelled \/ ~capIsDetecting)

\* Variant: the handle is dropped without clearing the timer.
clearTimeout_noop(pending, ref) == pending

\* if (detectionLoopRef.current) { clearTimeout(detectionLoopRef.current); ... }
clearTimeout(pending, ref) == {t \in pending : t.id # ref}

\* setTimeout(runCycle, 1500): the handle is one no pending timer has.
newTimerId(pending) ==
  CHOOSE n \in TimerIds :
     /\ \A t \in pending : t.id # n
     /\ \A m \in TimerIds : (\A t \in pending : t.id # m) => n <= m

canSetTimeout(pending) == \E n \in TimerIds : \A t \in pending : t.id # n

\* The callback is the runCycle of the calling effect instance: it carries
\* that instance's cancelled variable and captureAndSend closure.
setTimeout(pending, cancelled, capIsSending) ==
  [id |-> newTimerId(pending), delay |-> RearmDelayMs,
   cancelled |-> cancelled, capIsSending |-> capIsSending]

\* Variant: the cleanup does not set cancelled.
cancelOps_keep(o) == o

\* The effect cleanup: cancelled = true for the closures of the running
\* effect instance (those of earlier instances are true already).
cancelOps(o) ==
  [i \in DOMAIN o |-> IF o[i].kind = "poll"
                      THEN [o[i] EXCEPT !.cancelled = TRUE] ELSE o[i]]

cancelTimers(pending) == {[t EXCEPT !.cancelled = TRUE] : t \in pending}

\* Start/Stop button: disabled={isSending && !isDetecting}
startDisabled(sending, detecting) == sending /\ ~detecting

\* Variant: the watchdog effect does nothing.
watchdog_off(granted, detecting) == detecting

\* The watchdog effect:
\* if (!permission?.granted && isDetecting) setIsDetecting(false)
watchdog(granted, detecting) ==
  IF ~granted /\ detecting THEN FALSE ELSE detecting

\* Variant: the utterance is queued behind what is being spoken.
speakAlert_queues(queue, text) ==
  IF text = EmptyText THEN queue ELSE Append(queue, text)

\* if (!text) return; Speech.stop(); Speech.speak(text, ...)
speakAlert(queue, text) == IF text = EmptyText THEN queue ELSE <<text>>

\* ------------------------------------------------------------ the handlers
\* captureAndSend as called by runCycle, followed by the rest of runCycle
\* when captureAndSend returns at its guard.  pending and ref are the timers
\* and the handle left by what ran before in the same step; camera tells
\* whether cameraRef.current is set in the render the effect runs in.
runCycleIn(camera, pending, ref, capIsSending) ==
  IF guardPasses(camera, capIsSending)
  THEN /\ Len(ops) < MaxOps
       /\ error' = ""
       /\ isSending' = TRUE
       /\ ops' = Append(ops,
                    [kind |-> "poll", pc |-> "capture", cancelled |-> FALSE,
                     capIsSending |-> capIsSending, question |-> EmptyText,
                     sent |-> EmptyText, status |-> 0,
                overtaken |-> FALSE])
       /\ timers' = pending
       /\ detectionLoopRef' = ref
  ELSE /\ rearmAllowed(FALSE, TRUE)
       /\ canSetTimeout(pending)
       /\ timers' = pending \cup {setTimeout(pending, FALSE, capIsSending)}
       /\ detectionLoopRef' = newTimerId(pending)
       /\ UNCHANGED <<error, isSending, ops>>

\* runCycle called in the committed render: the camera handle is the one the
\* view rendered now gives.
runCycle(pending, ref, capIsSending) ==
  runCycleIn(cameraRef, pending, ref, capIsSending)

\* Variant: the cleanup only cancels the cycle in flight and leaves the
\* timer alone.
effectCleanup_keepsTimers ==
  /\ timers' = timers
  /\ detectionLoopRef' = detectionLoopRef
  /\ ops' = cancelOps(ops)

\* The cleanup returned by the detection effect.
effectCleanup ==
  /\ timers' = cancelTimers(clearTimeout(timers, detectionLoopRef))
  /\ detectionLoopRef' = 0
  /\ ops' = cancelOps(ops)

\* The Start/Stop button: rendered in the main view, disabled while
\* isSending && !isDetecting.  With permission granted the handler goes
\* straight to setIsDetecting(prev => !prev); the re-render runs the cleanup
\* of the previous effect instance and then the effect body.
handleToggleDetection ==
  /\ cameraRef
  /\ ~startDisabled(isSending, isDetecting)
  /\ permission = "granted"
  /\ isDetecting' = ~isDetecting
  /\ IF isDetecting
     THEN /\ effectCleanup
          /\ UNCHANGED <<error, isSending>>
          /\ last' = Event("stop", "idle", timers # {})
     ELSE /\ runCycle(timers, detectionLoopRef, isSending)
          /\ last' = Event("start", "idle", FALSE)
  /\ UNCHANGED <<speakerVars, request, mounted, input, screen, permission, session, alertText, detections,
                 userQuestion, speech>>

\* A pending timer fires: runCycle of the effect instance that set it.
timerFires(t) ==
  /\ t \in timers
  /\ IF t.cancelled
     THEN /\ timers' = timers \ {t}
          /\ UNCHANGED <<error, isSending, ops, detectionLoopRef>>
     ELSE runCycle(timers \ {t}, detectionLoopRef, t.capIsSending)
  /\ last' = IF t.cancelled THEN Event("other", "idle", FALSE)
             ELSE Event("timer", "idle", FALSE)
  /\ UNCHANGED <<speakerVars, request, mounted, input, screen, permission, session, alertText, isDetecting,
                 detections, userQuestion, speech>>

\* The Smart query button (query screen): disabled while isSending.
handleSmartQuery ==
  /\ screen = "query"
  /\ cameraRef
  /\ ~isSending
  /\ guardPasses(cameraRef, isSending)
  /\ Len(ops) < MaxOps
  /\ error' = ""
  /\ isSending' = TRUE
  /\ ops' = Append(ops,
               [kind |-> "query", pc |-> "capture", cancelled |-> FALSE,
                capIsSending |-> FALSE, question |-> userQuestion,
                sent |-> EmptyText, status |-> 0,
                overtaken |-> FALSE])
  /\ last' = Event("other", "idle", FALSE)
  /\ UNCHANGED <<speakerVars, request, mounted, input, screen, permission, session, alertText, isDetecting,
                 detections, userQuestion, detectionLoopRef, timers, speech>>

\* Variant: a smart query re-arms the loop as a polling cycle does.
rearm_anyKind(i) ==
  IF rearmAllowed(ops[i].cancelled, TRUE)
  THEN /\ canSetTimeout(timers)
       /\ timers' = timers \cup {setTimeout(timers, ops[i].cancelled,
                                           ops[i].capIsSending)}
       /\ detectionLoopRef' = newTimerId(timers)
  ELSE UNCHANGED <<timers, detectionLoopRef>>

\* The rest of runCycle after `await captureAndSend()`.
rearm(i) ==
  IF ops[i].kind = "poll" /\ rearmAllowed(ops[i].cancelled, TRUE)
  THEN /\ canSetTimeout(timers)
       /\ timers' = timers \cup {setTimeout(timers, ops[i].cancelled,
                                           ops[i].capIsSending)}
       /\ detectionLoopRef' = newTimerId(timers)
  ELSE UNCHANGED <<timers, detectionLoopRef>>

\* finally { setIsSending(false) } and, for a polling cycle, the rest of
\* runCycle after `await captureAndSend()`.
finish(i) ==
  /\ isSending' = FALSE
  /\ ops' = returnFrom(ops, i)
  /\ rearm(i)

\* Variant: the catch block also resets the stored result.
fail_resetsResult(i, err) ==
  /\ error' = errorMessage(err)
  /\ finish(i)
  /\ last' = [Event("fail", ops[i].kind, ops[i].cancelled)
                EXCEPT !.status = err.status]
  /\ detections' = <<>>
  /\ alertText' = EmptyText
  /\ UNCHANGED <<speakerVars, request, mounted, input, screen, permission, session, isDetecting, userQuestion,
                 speech>>

\* catch (err) { setError((err as Error)?.message ?? '...') }
fail(i, err) ==
  /\ error' = errorMessage(err)
  /\ finish(i)
  /\ last' = [Event("fail", ops[i].kind, ops[i].cancelled)
                EXCEPT !.status = err.status]
  /\ UNCHANGED <<speakerVars, request, mounted, input, screen, permission, session, alertText, isDetecting,
                 detections, userQuestion, speech>>

\* takePictureAsync resolves: the form is built (with the question field
\* for a smart query) and fetch is issued.
captureResolves(i) ==
  /\ ops[i].pc = "capture"
  /\ ops' = [ops EXCEPT ![i].pc = "fetch",
                        ![i].sent = IF ops[i].kind = "query"
                                    THEN questionToSend(ops[i].question)
                                    ELSE EmptyText]
  /\ last' = Event("other", "idle", FALSE)
  /\ UNCHANGED <<speakerVars, request, mounted, input, screen, permission, session, isSending, alertText, error,
                 isDetecting, detections, userQuestion, detectionLoopRef,
                 timers, speech>>

\* Variant: a capture failure is swallowed.
captureRejects_swallowed(i, err) ==
  /\ ops[i].pc = "capture"
  /\ fail(i, [hasMessage |-> TRUE, message |-> error, status |-> 0])

\* takePictureAsync rejects.
captureRejects(i, err) ==
  /\ ops[i].pc = "capture"
  /\ fail(i, err)

\* fetch resolves with a status: a non-ok status throws.
fetchResolves(i, status) ==
  /\ ops[i].pc = "fetch"
  /\ IF responseOk(status)
     THEN /\ ops' = [ops EXCEPT ![i].pc = "json", ![i].status = status]
          /\ last' = Event("other", "idle", FALSE)
          /\ UNCHANGED <<speakerVars, request, mounted, input, screen, permission, session, isSending, alertText,
                         error, isDetecting, detections, userQuestion,
                         detectionLoopRef, timers, speech>>
     ELSE fail(i, statusError(status))

\* Variant: a transport failure goes back to the capture.
fetchRejects_retries(i, err) ==
  /\ ops[i].pc = "fetch"
  /\ ops' = [ops EXCEPT ![i].pc = "capture"]
  /\ last' = Event("other", "idle", FALSE)
  /\ UNCHANGED <<speakerVars, request, mounted, input, screen, permission, session, isSending, alertText, error,
                 isDetecting, detections, userQuestion, detectionLoopRef,
                 timers, speech>>

\* fetch rejects.
fetchRejects(i, err) ==
  /\ ops[i].pc = "fetch"
  /\ fail(i, err)

\* Variant: a smart query stores the answer even when it is blank.
resultText_noFallback(op, json) ==
  IF op.kind = "query"
  THEN trim(IF json.answer_text.present THEN json.answer_text.text
            ELSE EmptyText)
  ELSE IF json.alert_text.present THEN json.alert_text.text ELSE EmptyText

\* The text stored and spoken on success: json.alert_text ?? '' for a
\* polling cycle, (json.answer_text ?? '').trim() || questionToSend for a
\* smart query.
resultText(op, json) ==
  IF op.kind = "query"
  THEN LET answer == trim(IF json.answer_text.present
                          THEN json.answer_text.text ELSE EmptyText)
       IN IF answer # EmptyText THEN answer ELSE op.sent
  ELSE IF json.alert_text.present THEN json.alert_text.text ELSE EmptyText

\* response.json() resolves: json.objects throws when the body is null,
\* otherwise the result is applied.
jsonResolves(i, json) ==
  /\ ops[i].pc = "json"
  /\ IF json.isNull
     THEN fail(i, nullBodyError)
     ELSE /\ detections' \in parseOutcomes(json)
          /\ alertText' = resultText(ops[i], json)
          /\ speech' = speakAlert(speech, resultText(ops[i], json))
          /\ finish(i)
          /\ last' = Event("success", ops[i].kind, ops[i].cancelled)
          /\ UNCHANGED <<speakerVars, request, mounted, input, screen, permission, session, error,
                         isDetecting, userQuestion>>

\* ---------------------------------------------------------- the environment
\* The text-to-speech collaborator finishes an utterance.
speechDone ==
  /\ speech # <<>>
  /\ speech' = Tail(speech)
  /\ last' = Event("other", "idle", FALSE)
  /\ UNCHANGED <<speakerVars, request, mounted, input, screen, permission, session, isSending, alertText, error,
                 isDetecting, detections, userQuestion, detectionLoopRef,
                 timers, ops>>

\* The permission hook reports a new value.  permission?.granted is a
\* dependency of the detection effect: its cleanup runs if it was looping,
\* its body clears the timer handle, and the watchdog effect resets
\* isDetecting when permission is not granted.
permissionChanges(p) ==
  /\ p \in {"granted", "denied"}
  /\ p # permission
  /\ permission' = p
  /\ IF isDetecting
     THEN effectCleanup
     ELSE /\ timers' = clearTimeout(timers, detectionLoopRef)
          /\ detectionLoopRef' = 0
          /\ UNCHANGED ops
  /\ isDetecting' = watchdog(p = "granted", isDetecting)
  /\ last' = Event("other", "idle", FALSE)
  /\ UNCHANGED <<speakerVars, request, mounted, input, screen, session, isSending, alertText, error, detections,
                 userQuestion, speech>>

\* initSession / onAuthStateChange deliver a session or null (query screen).
sessionChanges ==
  /\ screen = "query"
  /\ session' = ~session
  /\ last' = Event("other", "idle", FALSE)
  /\ UNCHANGED <<speakerVars, request, mounted, input, screen, permission, isSending, alertText, error,
                 isDetecting, detections, userQuestion, detectionLoopRef,
                 timers, ops, speech>>

\* The question input (query screen): editable while not isSending.
setUserQuestion(q) ==
  /\ screen = "query"
  /\ cameraRef
  /\ ~isSending
  /\ q # userQuestion
  /\ userQuestion' = q
  /\ last' = Event("other", "idle", FALSE)
  /\ UNCHANGED <<speakerVars, request, mounted, input, screen, permission, session, isSending, alertText, error,
                 isDetecting, detections, detectionLoopRef, timers, ops,
                 speech>>

\* The end of an utterance is taken in the Teardown specification; here an
\* utterance stays with the collaborator until the next one replaces it.
Next ==
  \/ handleToggleDetection
  \/ \E t \in timers : timerFires(t)
  \/ handleSmartQuery
  \/ \E i \in DOMAIN ops : captureResolves(i)
  \/ \E i \in DOMAIN ops, err \in CameraRejections : captureRejects(i, err)
  \/ \E i \in DOMAIN ops, status \in StatusCodes : fetchResolves(i, status)
  \/ \E i \in DOMAIN ops, err \in Rejections : fetchRejects(i, err)
  \/ \E i \in DOMAIN ops, json \in Bodies : jsonResolves(i, json)
  \/ \E p \in {"granted", "denied"} : permissionChanges(p)
  \/ sessionChanges
  \/ \E q \in UserQuestions : setUserQuestion(q)

Spec == Init /\ [][Next]_vars

\* ------------------------------------------------- the Parse specification
\* One call, from the resolution of its capture to the application of a
\* response body, over a bounded set of bodies and typed questions.
DistanceValues == {NoNum, SomeNum(1), SomeNum(2), NotANumber}

ItemLists ==
  UNION { [1..n -> {[EmptyItem EXCEPT !.distance = d] : d \in DistanceValues}] :
            n \in 0..MaxItems }

FieldItems ==
  { [label |-> l, distance |-> d, direction |-> dir, risk |-> r] :
      l \in {NoStr, SomeStr(""), SomeStr("chair")}, d \in DistanceValues,
      dir \in {NoStr, SomeStr("left")}, r \in {NoStr, SomeStr("danger")} }

\* Not an array: the field is absent, or is an object holding an element.
ObjectsValues ==
  { [isArray |-> TRUE, items |-> l] :
      l \in ItemLists \cup {<<x>> : x \in FieldItems} }
  \cup { [isArray |-> FALSE, items |-> l] :
           l \in {<<>>, <<Item("chair", 2, "left", "caution")>>} }

\* alert_text and answer_text: absent, present and blank, present with text.
TextPairs ==
  { <<NoText, NoText>>,
    <<SomeText(EmptyText), SomeText(<<SP>>)>>,
    <<SomeText(<<"Stop">>), SomeText(<<SP, "Door ahead", SP>>)>> }

ParseBodies ==
  { [isNull |-> FALSE, objects |-> o, alert_text |-> t[1],
     answer_text |-> t[2]] :
      o \in ObjectsValues, t \in TextPairs }
  \cup {NullBody}

Questions ==
  UNION { [1..n -> {SP, "red", "door?"}] : n \in 0..MaxQuestionLen }

ParseCases ==
  { [body |-> b, screen |-> sc, kind |-> "poll", question |-> EmptyText] :
      b \in ParseBodies, sc \in {"tabs", "query"} }
  \cup { [body |-> b, screen |-> "query", kind |-> "query", question |-> q] :
           b \in ParseBodies, q \in UserQuestions }
  \cup { [body |-> b, screen |-> "query", kind |-> "query", question |-> q] :
           b \in Bodies, q \in Questions }

\* The state in which a call awaits its capture, an earlier call having
\* left the result of SampleBody on display.
InitParse ==
  /\ \E c \in ParseCases :
       /\ input = c.body
       /\ screen = c.screen
       /\ session = (c.screen = "query")
       /\ isDetecting = (c.kind = "poll")
       /\ detectionLoopRef = IF c.kind = "poll" THEN 1 ELSE 0
       /\ userQuestion = c.question
       /\ ops = <<[kind |-> c.kind, pc |-> "capture", cancelled |-> FALSE,
                   capIsSending |-> FALSE, question |-> c.question,
                   sent |-> EmptyText, status |-> 0,
                overtaken |-> FALSE]>>
  /\ permission = "granted"
  /\ isSending = TRUE
  /\ alertText = <<"Stop">>
  /\ error = ""
  /\ detections = parsedDetections(SampleBody)
  /\ timers = {}
  /\ speech \in {<<>>, <<alertText>>}
  /\ last = Event("other", "idle", FALSE)
  /\ mounted = TRUE
  /\ request = "none"
  /\ InitSpeakers

NextParse ==
  \/ \E i \in DOMAIN ops : captureResolves(i)
  \/ \E i \in DOMAIN ops : fetchResolves(i, 200)
  \/ \E i \in DOMAIN ops : jsonResolves(i, input)

SpecParse == InitParse /\ [][NextParse]_vars

\* ---------------------------------------------- the Teardown specification
\* The screen from construction to after its unmount.  Calls outstanding at
\* the unmount go on in the unmounted component: its state setters do
\* nothing, speakAlert and the rest of runCycle still run.

\* The state and the hooks of the component go away with it: the variables
\* take the values they have before construction.
discardState ==
  /\ permission' = "null"
  /\ session' = FALSE
  /\ isSending' = FALSE
  /\ alertText' = EmptyText
  /\ error' = ""
  /\ isDetecting' = FALSE
  /\ detections' = <<>>
  /\ userQuestion' = EmptyText

\* Variant: the unmount runs no effect cleanup.
unmount_noCleanup ==
  /\ mounted
  /\ mounted' = FALSE
  /\ last' = Event("unmount", "idle", timers # {})
  /\ UNCHANGED <<timers, detectionLoopRef, ops>>
  /\ discardState
  /\ UNCHANGED <<speakerVars, request, input, screen, speech>>

\* The screen is unmounted: the cleanup of the detection effect runs if an
\* effect instance is looping; the auth effect's cleanup unsubscribes.
unmount ==
  /\ mounted
  /\ mounted' = FALSE
  /\ last' = Event("unmount", "idle", timers # {})
  /\ IF isDetecting /\ permission = "granted"
     THEN effectCleanup
     ELSE UNCHANGED <<timers, detectionLoopRef, ops>>
  /\ discardState
  /\ UNCHANGED <<speakerVars, request, input, screen, speech>>

\* A call of the unmounted component fails at the await it is suspended at.
failsUnmounted(i) ==
  /\ ~mounted
  /\ ops' = returnFrom(ops, i)
  /\ rearm(i)
  /\ last' = Event("dropped", ops[i].kind, ops[i].cancelled)
  /\ UNCHANGED <<speakerVars, request, mounted, input, screen, permission, session, isSending,
                 alertText, error, isDetecting, detections, userQuestion,
                 speech>>

\* A call of the unmounted component reads a response body.
succeedsUnmounted(i, json) ==
  /\ ~mounted
  /\ ops[i].pc = "json"
  /\ speech' = speakAlert(speech, resultText(ops[i], json))
  /\ ops' = returnFrom(ops, i)
  /\ rearm(i)
  /\ last' = Event("dropped", ops[i].kind, ops[i].cancelled)
  /\ UNCHANGED <<speakerVars, request, mounted, input, screen, permission, session, isSending,
                 alertText, error, isDetecting, detections, userQuestion>>

\* The question typed plays no part in the teardown and is left empty.
NextTeardown ==
  \/ mounted /\ handleToggleDetection
  \/ \E t \in timers : timerFires(t)
  \/ mounted /\ handleSmartQuery
  \/ \E i \in DOMAIN ops : captureResolves(i)
  \/ mounted /\ \E i \in DOMAIN ops, err \in CameraRejections :
                  captureRejects(i, err)
  \/ \E i \in DOMAIN ops, status \in StatusCodes :
       (mounted \/ responseOk(status)) /\ fetchResolves(i, status)
  \/ mounted /\ \E i \in DOMAIN ops, err \in Rejections : fetchRejects(i, err)
  \/ mounted /\ \E i \in DOMAIN ops, json \in Bodies : jsonResolves(i, json)
  \/ speechDone
  \/ mounted /\ \E p \in {"granted", "denied"} : permissionChanges(p)
  \/ mounted /\ sessionChanges
  \/ unmount
  \/ \E i \in DOMAIN ops : failsUnmounted(i)
  \/ \E i \in DOMAIN ops, json \in Bodies : succeedsUnmounted(i, json)

SpecTeardown == Init /\ [][NextTeardown]_vars

\* --------------------------------------------------- the Live specification
\* The mounted screen with the scheduling the runtime gives: a pending timer
\* fires, and every outstanding capture, request and body read settles.  The
\* loop does not look at the text typed, at the speech queue or at what a
\* body holds, so the question input and the end of an utterance are left
\* out and the backend answers 200 with {} or 500.

\* What the backend and the transport answer with in this specification.
LiveStatusCodes == {200, 500}
LiveBodies == {EmptyBody}
LiveRejections == {err \in Rejections : err.hasMessage}

\* The call in slot i settles the await it is suspended at.
resolves(i) ==
  /\ i \in DOMAIN ops
  /\ \/ captureResolves(i)
     \/ \E err \in CameraRejections : captureRejects(i, err)
     \/ \E status \in LiveStatusCodes : fetchResolves(i, status)
     \/ \E err \in LiveRejections : fetchRejects(i, err)
     \/ \E json \in LiveBodies : jsonResolves(i, json)

\* The timer is strongly fair: the only thing that disables a pending timer
\* is the bound on the calls tracked at the same time.  A call keeps its slot
\* or moves to a lower one, so fairness per slot settles every call.
Fairness ==
  /\ SF_vars(\E t \in timers : timerFires(t))
  /\ \A i \in 1..MaxOps : WF_vars(resolves(i))

NextLive ==
  \/ handleToggleDetection
  \/ \E t \in timers : timerFires(t)
  \/ handleSmartQuery
  \/ \E i \in DOMAIN ops : captureResolves(i)
  \/ \E i \in DOMAIN ops, err \in CameraRejections : captureRejects(i, err)
  \/ \E i \in DOMAIN ops, status \in LiveStatusCodes : fetchResolves(i, status)
  \/ \E i \in DOMAIN ops, err \in LiveRejections : fetchRejects(i, err)
  \/ \E i \in DOMAIN ops, json \in LiveBodies : jsonResolves(i, json)
  \/ \E p \in {"granted", "denied"} : permissionChanges(p)
  \/ sessionChanges

SpecLive == Init /\ [][NextLive]_vars /\ Fairness

\* -------------------------------------------------- the Press specification
\* handleToggleDetection with its three permission branches.  The button that
\* calls it is rendered only in the main view, where permission is granted;
\* this specification also invokes the handler from a render in which
\* permission is null or denied.  While requestPermission() is open the
\* hook's value changes only by its outcome.

\* Variant: the handler goes on to setIsDetecting whatever the request gave.
toggleProceeds_always(pressedAt, granted) == TRUE

\* What the handler does after its await: `return` after the request made
\* with permission null; `if (!result.granted) return` after the renewed one.
toggleProceeds(pressedAt, granted) == pressedAt = "denied" /\ granted

\* if (!permission) { await requestPermission(); return; }
\* if (!permission.granted) { const result = await requestPermission(); ...
pressWithoutPermission ==
  /\ mounted
  /\ request = "none"
  /\ permission # "granted"
  /\ request' = IF permission = "null" THEN "unknown" ELSE "denied"
  /\ last' = Event("other", "idle", FALSE)
  /\ UNCHANGED <<speakerVars, mounted, input, screen, permission, session,
                 isSending, alertText, error, isDetecting, detections,
                 userQuestion, detectionLoopRef, timers, ops, speech>>

\* requestPermission() resolves: the hook takes the new value, then the
\* handler resumes.  setIsDetecting(prev => !prev) and the new permission
\* are rendered together, and the effects of that render run.
requestResolves(granted) ==
  /\ request # "none"
  /\ request' = "none"
  /\ permission' = IF granted THEN "granted" ELSE "denied"
  /\ IF toggleProceeds(request, granted)
     THEN /\ isDetecting' = watchdog(granted, ~isDetecting)
          /\ IF isDetecting
             THEN /\ effectCleanup
                  /\ UNCHANGED <<error, isSending>>
             ELSE IF granted
             THEN runCycleIn(mounted /\ (screen = "query" => session),
                             timers, detectionLoopRef, isSending)
             ELSE /\ timers' = clearTimeout(timers, detectionLoopRef)
                  /\ detectionLoopRef' = 0
                  /\ UNCHANGED <<error, isSending, ops>>
          /\ last' = Event(IF isDetecting' THEN "start" ELSE "stop",
                           "renewed", FALSE)
     ELSE /\ isDetecting' = watchdog(granted, isDetecting)
          /\ IF isDetecting
             THEN effectCleanup
             ELSE /\ timers' = clearTimeout(timers, detectionLoopRef)
                  /\ detectionLoopRef' = 0
                  /\ UNCHANGED ops
          /\ UNCHANGED <<error, isSending>>
          /\ last' = Event("other", "returned", FALSE)
  /\ UNCHANGED <<speakerVars, mounted, input, screen, session, alertText,
                 detections, userQuestion, speech>>

NextPress ==
  \/ handleToggleDetection
  \/ pressWithoutPermission
  \/ \E granted \in BOOLEAN : requestResolves(granted)
  \/ \E t \in timers : timerFires(t)
  \/ handleSmartQuery
  \/ \E i \in DOMAIN ops : captureResolves(i)
  \/ \E i \in DOMAIN ops, err \in CameraRejections : captureRejects(i, err)
  \/ \E i \in DOMAIN ops, status \in LiveStatusCodes : fetchResolves(i, status)
  \/ \E i \in DOMAIN ops, err \in LiveRejections : fetchRejects(i, err)
  \/ \E i \in DOMAIN ops, json \in LiveBodies : jsonResolves(i, json)
  \/ request = "none" /\ \E p \in {"granted", "denied"} : permissionChanges(p)
  \/ sessionChanges

SpecPress == Init /\ [][NextPress]_vars

\* ----------------------------------------------- the Speakers specification
\* The speaker screen (speakers.tsx): the record button, startRecording,
\* stopRecording and processAudio.  A call is a record
\*   fn   "start" | "stop" | "process"
\*   pc   the await the call is suspended at: "mode" (setAudioModeAsync),
\*        "create" (Recording.createAsync), "unload" (stopAndUnloadAsync),
\*        "fetch", "json"
\*   rec  the Recording the closure of stopRecording holds, 0 otherwise
\* Whether the audio library lets a second Recording be created while
\* another exists is its own business: createAsync resolves or rejects.

AudioStatusCodes == {200, 500}

NoList == [present |-> FALSE, items |-> <<>>]
SomeList(l) == [present |-> TRUE, items |-> l]

\* Response bodies of the audio backend: an error field that is absent, the
\* empty string or a message, and a speakers field that is absent or a list.
AudioBodies ==
  [error : {NoStr, SomeStr(""), SomeStr("No speech detected")},
   speakers : {NoList, SomeList(<<"speaker 1">>),
               SomeList(<<"speaker 1", "speaker 2">>)}]

\* if (json.error): a string is truthy when it is not empty.
truthy(str) == str.present /\ str.s # ""

\* json.speakers || []
speakersOf(json) ==
  IF json.speakers.present THEN json.speakers.items ELSE <<>>

\* (err as Error)?.message || 'Failed to process audio'
audioErrorMessage(err) ==
  IF err.hasMessage /\ err.message # "" THEN err.message
  ELSE "Failed to process audio"

AudioEvent(ev) == [ev |-> ev, json |-> 0]

recordIds == 1..MaxRecordings

\* The button: disabled={isProcessing || !hasPermission}, rendered in the
\* main view only (hasPermission true).
recordButtonEnabled == hasPermission = "granted" /\ ~isProcessing

\* The permission effect: Audio.requestPermissionsAsync() resolves with
\* a status, or rejects (setHasPermission(false)).
micPermissionResolves(granted) ==
  /\ hasPermission = "null"
  /\ hasPermission' = IF granted THEN "granted" ELSE "denied"
  /\ lastAudio' = AudioEvent("other")
  /\ UNCHANGED <<detectionVars, recording, isRecording, isProcessing,
                 speakers, audioError, calls, recorders>>

\* onPress with isRecording false: startRecording up to its first await.
\* The function has no guard of its own.
startRecording ==
  /\ recordButtonEnabled
  /\ ~isRecording
  /\ Len(calls) < MaxCalls
  /\ calls' = Append(calls, [fn |-> "start", pc |-> "mode", rec |-> 0])
  /\ lastAudio' = AudioEvent("press")
  /\ UNCHANGED <<detectionVars, hasPermission, recording, isRecording,
                 isProcessing, speakers, audioError, recorders>>

\* onPress with isRecording true: stopRecording up to its await, or its
\* return at `if (!recording) return`.
stopRecording ==
  /\ recordButtonEnabled
  /\ isRecording
  /\ IF recording = 0
     THEN /\ lastAudio' = AudioEvent("ignored")
          /\ UNCHANGED <<isRecording, calls>>
     ELSE /\ Len(calls) < MaxCalls
          /\ isRecording' = FALSE
          /\ calls' = Append(calls, [fn |-> "stop", pc |-> "unload",
                                     rec |-> recording])
          /\ lastAudio' = AudioEvent("press")
  /\ UNCHANGED <<detectionVars, hasPermission, recording, isProcessing,
                 speakers, audioError, recorders>>

\* await Audio.setAudioModeAsync(...) resolves: createAsync is called.
modeResolves(i) ==
  /\ calls[i].pc = "mode"
  /\ calls' = [calls EXCEPT ![i].pc = "create"]
  /\ lastAudio' = AudioEvent("other")
  /\ UNCHANGED <<detectionVars, hasPermission, recording, isRecording,
                 isProcessing, speakers, audioError, recorders>>

\* setAudioModeAsync or createAsync rejects:
\* catch { setError('Failed to start recording') }
startRejects(i) ==
  /\ calls[i].fn = "start"
  /\ audioError' = "Failed to start recording"
  /\ calls' = removeAt(calls, i)
  /\ lastAudio' = AudioEvent("other")
  /\ UNCHANGED <<detectionVars, hasPermission, recording, isRecording,
                 isProcessing, speakers, recorders>>

\* createAsync resolves with a new Recording: setRecording(recording);
\* setIsRecording(true); setError(''); setSpeakers([])
createResolves(i, id) ==
  /\ calls[i].pc = "create"
  /\ id \in recordIds \ recorders
  /\ recorders' = recorders \cup {id}
  /\ recording' = id
  /\ isRecording' = TRUE
  /\ audioError' = ""
  /\ speakers' = <<>>
  /\ calls' = removeAt(calls, i)
  /\ lastAudio' = AudioEvent("created")
  /\ UNCHANGED <<detectionVars, hasPermission, isProcessing>>

\* await recording.stopAndUnloadAsync() resolves: setRecording(null) and,
\* the URI of a prepared recording being set, processAudio up to its fetch:
\* setIsProcessing(true); setError('')
unloadResolves(i) ==
  /\ calls[i].pc = "unload"
  /\ recorders' = recorders \ {calls[i].rec}
  /\ recording' = 0
  /\ isProcessing' = TRUE
  /\ audioError' = ""
  /\ calls' = [calls EXCEPT ![i] = [fn |-> "process", pc |-> "fetch",
                                    rec |-> 0]]
  /\ lastAudio' = AudioEvent("other")
  /\ UNCHANGED <<detectionVars, hasPermission, isRecording, speakers>>

\* stopAndUnloadAsync rejects: stopRecording ends there, the state keeps the
\* Recording; the library may or may not have unloaded it.
unloadRejects(i, unloaded) ==
  /\ calls[i].pc = "unload"
  /\ recorders' = IF unloaded THEN recorders \ {calls[i].rec} ELSE recorders
  /\ calls' = removeAt(calls, i)
  /\ lastAudio' = AudioEvent("other")
  /\ UNCHANGED <<detectionVars, hasPermission, recording, isRecording,
                 isProcessing, speakers, audioError>>

\* catch (err) { setError(...) } finally { setIsProcessing(false) }; json
\* (observation only) is the body that made the code throw, 0 if none.
audioFail(i, message, json) ==
  /\ audioError' = message
  /\ isProcessing' = FALSE
  /\ calls' = removeAt(calls, i)
  /\ lastAudio' = [ev |-> "fail", json |-> json]
  /\ UNCHANGED <<detectionVars, hasPermission, recording, isRecording,
                 speakers, recorders>>

\* fetch resolves: if (!response.ok) throw new Error(`Server error: ...`)
audioFetchResolves(i, status) ==
  /\ calls[i].pc = "fetch"
  /\ IF responseOk(status)
     THEN /\ calls' = [calls EXCEPT ![i].pc = "json"]
          /\ lastAudio' = AudioEvent("other")
          /\ UNCHANGED <<detectionVars, hasPermission, recording,
                         isRecording, isProcessing, speakers, audioError,
                         recorders>>
     ELSE audioFail(i, audioErrorMessage(statusError(status)), 0)

\* fetch rejects.
audioFetchRejects(i, err) ==
  /\ calls[i].pc = "fetch"
  /\ audioFail(i, audioErrorMessage(err), 0)

\* response.json() resolves: if (json.error) throw new Error(json.error);
\* setSpeakers(json.speakers || [])
audioJsonResolves(i, json) ==
  /\ calls[i].pc = "json"
  /\ IF truthy(json.error)
     THEN audioFail(i, audioErrorMessage([hasMessage |-> TRUE,
                                          message |-> json.error.s,
                                          status |-> 0]), json)
     ELSE /\ speakers' = speakersOf(json)
          /\ isProcessing' = FALSE
          /\ calls' = removeAt(calls, i)
          /\ lastAudio' = [ev |-> "success", json |-> json]
          /\ UNCHANGED <<detectionVars, hasPermission, recording,
                         isRecording, audioError, recorders>>

InitSpeakersScreen == Init /\ screen = "tabs"

NextSpeakers ==
  \/ \E granted \in BOOLEAN : micPermissionResolves(granted)
  \/ startRecording
  \/ stopRecording
  \/ \E i \in DOMAIN calls : modeResolves(i)
  \/ \E i \in DOMAIN calls : startRejects(i)
  \/ \E i \in DOMAIN calls, id \in recordIds : createResolves(i, id)
  \/ \E i \in DOMAIN calls : unloadResolves(i)
  \/ \E i \in DOMAIN calls, unloaded \in BOOLEAN : unloadRejects(i, unloaded)
  \/ \E i \in DOMAIN calls, status \in AudioStatusCodes :
       audioFetchResolves(i, status)
  \/ \E i \in DOMAIN calls, err \in Rejections : audioFetchRejects(i, err)
  \/ \E i \in DOMAIN calls, json \in AudioBodies : audioJsonResolves(i, json)

SpecSpeakers == InitSpeakersScreen /\ [][NextSpeakers]_vars

\* ================================================================ properties
\* A polling cycle starts a capture in this step.
PollCaptureStarts ==
  /\ Len(ops') = Len(ops) + 1
  /\ ops'[Len(ops')].kind = "poll"

\* Any capture (polling cycle or smart query) starts in this step.
CaptureStarts == Len(ops') = Len(ops) + 1

\* The call in slot i completes in this step.
Completes(i) == i \in DOMAIN ops /\ ops' = returnFrom(ops, i)

FailureMessages ==
  {errorMessage(err) : err \in Rejections \cup CameraRejections} \cup
  {ServerError(status) : status \in {c \in StatusCodes : ~responseOk(c)}}

\* C1: at-most-one-in-flight for the polling loop: two polling cycles are
\* never outstanding at the same time.
C1_AtMostOnePollInFlight == Cardinality(PollOps) <= 1

\* C2: no-overlap-after-stop: a polling cycle starts a capture only in a step
\* that leaves detection active, and only as the start itself or from a
\* timer set since the latest start; while isDetecting is false no polling
\* cycle starts a capture, whether a timer was pending or a cycle was in
\* flight when detection was stopped.
C2_NoCaptureAfterStop ==
  [][ PollCaptureStarts =>
        /\ isDetecting'
        /\ \/ ~isDetecting
           \/ \E t \in timers : ~t.cancelled /\ t \notin timers' ]_vars

\* C2 witness: detection has been stopped while a polling cycle was in
\* flight, and that cycle is still outstanding.
C2_Witness ==
  /\ ~isDetecting
  /\ \E i \in DOMAIN ops : ops[i].kind = "poll" /\ ops[i].cancelled

\* C3: a capture/request is started only when none is outstanding, so a
\* smart query and a polling cycle never overlap.
C3_StartOnlyWhenIdle == [][CaptureStarts => Outstanding = {}]_vars

\* C4: whenever detection is inactive and no polling cycle is in flight, no
\* re-arm timer is pending.
C4_NoTimerWhenStopped ==
  (~isDetecting /\ PollOps = {}) => timers = {}

\* C4 witness: the last step stopped detection while a re-arm timer was
\* pending and no cycle was in flight.
C4_Witness ==
  /\ last.ev = "stop" /\ last.cancelled
  /\ ~isDetecting
  /\ PollOps = {}

\* C5: half-cancellation: stopping leaves every outstanding call in place;
\* a polling cycle cancelled while in flight still applies its outcome when
\* it resolves (error on failure, detections and alert text on success,
\* isSending reset) and sets no timer.
C5_HalfCancellation ==
  [][ /\ (isDetecting /\ ~isDetecting') =>
           /\ Len(ops') = Len(ops)
           /\ \A i \in DOMAIN ops : /\ ops'[i].kind = ops[i].kind
                                   /\ ops'[i].pc = ops[i].pc
      /\ \A i \in DOMAIN ops :
           (ops[i].kind = "poll" /\ ops[i].cancelled /\ Completes(i)) =>
             /\ isSending' = FALSE
             /\ timers' = timers
             /\ \/ /\ last'.ev = "fail"
                   /\ error' \in FailureMessages
                \/ /\ last'.ev = "success"
                   /\ \E json \in Bodies :
                        /\ detections' \in parseOutcomes(json)
                        /\ alertText' = resultText(ops[i], json) ]_vars

\* C5 witness: a polling cycle cancelled in flight has just applied a
\* successful result.
C5_Witness ==
  /\ last = Event("success", "poll", TRUE)
  /\ detections # <<>>
  /\ timers = {}

\* C6: error non-fatality: when a polling cycle whose loop was not stopped
\* fails, detection stays active and exactly one timer, with the 1500 ms
\* delay, is pending afterwards; no capture starts in that step.
C6_ErrorNonFatal ==
  [][ \A i \in DOMAIN ops :
        (ops[i].kind = "poll" /\ ~ops[i].cancelled /\ Completes(i)
           /\ last'.ev = "fail") =>
          /\ isDetecting /\ isDetecting'
          /\ timers = {}
          /\ Cardinality(timers') = 1
          /\ \A t \in timers' : t.delay = 1500 /\ ~t.cancelled
          /\ ~CaptureStarts ]_vars

\* C6 witness: an active polling cycle has just failed and its re-arm timer
\* is pending.
C6_Witness ==
  /\ last = Event("fail", "poll", FALSE)
  /\ error # ""
  /\ isDetecting
  /\ timers # {}

\* C7: in every reachable state at most one re-arm timer is pending.
C7_AtMostOneTimer == Cardinality(timers) <= 1

\* C7 witness: an active polling cycle has just completed successfully and
\* its one re-arm timer is pending.
C7_Witness ==
  /\ last = Event("success", "poll", FALSE)
  /\ Cardinality(timers) = 1

\* C8: isSending is true in exactly the states where a capture or backend
\* request started by the screen is outstanding.
C8_IsSendingIffOutstanding == isSending <=> (Outstanding # {})

\* C9: a failed cycle sets the error message and leaves the stored
\* detections and the stored alert text as they were.
C9_FailureFrame ==
  [][ (last'.ev = "fail" /\ \E i \in DOMAIN ops : Completes(i)) =>
        /\ error' \in FailureMessages
        /\ detections' = detections
        /\ alertText' = alertText ]_vars

\* C9 witness: a cycle has just failed while detections and an alert text
\* from an earlier success are stored.
C9_Witness ==
  /\ last.ev = "fail"
  /\ error # ""
  /\ detections # <<>>
  /\ alertText # EmptyText

\* C10: a step that activates detection has camera permission granted and
\* starts the first capture in the same step without setting a timer; while
\* detection stays active a polling capture starts only from a timer firing.
C10_StartImmediate ==
  [][ /\ (~isDetecting /\ isDetecting') =>
           /\ permission = "granted"
           /\ PollCaptureStarts
           /\ timers' = timers
      /\ (isDetecting /\ isDetecting' /\ PollCaptureStarts) =>
           \E t \in timers : t \notin timers' ]_vars

\* C10 witness: detection has just been started and the first capture is
\* outstanding.
C10_Witness ==
  /\ last.ev = "start"
  /\ isDetecting
  /\ \E i \in DOMAIN ops : ops[i].kind = "poll" /\ ops[i].pc = "capture"
  /\ timers = {}

\* C11: most-recent-result-wins: outcomes are applied in the order the
\* captures were started; no call applies its outcome after a call started
\* later has applied its own.
C11_ResultsInStartOrder ==
  [][ \A i \in DOMAIN ops : Completes(i) => ~ops[i].overtaken ]_vars

\* C12: sort invariant: whenever the objects field of the applied body is
\* an array, no stored detection comes before one with a smaller distance
\* (the weakest reading of "non-decreasing" when a distance is not a
\* number).
C12_SortedByDistance ==
  (last.ev = "success" /\ input.objects.isArray) =>
    \A i, j \in DOMAIN detections :
      (i < j /\ ~detections[i].distance.nan /\ ~detections[j].distance.nan)
        => detections[i].distance.n <= detections[j].distance.n

\* The detection d holds the defaults for the fields item lacks and the
\* backend's value for the fields it has.
filled(d, item) ==
  /\ d.label = IF item.label.present THEN item.label.s ELSE "Unknown"
  /\ IF item.distance.present
     THEN /\ item.distance.numeric
          /\ ~d.distance.nan
          /\ d.distance.n = item.distance.n
     ELSE d.distance = [nan |-> FALSE, n |-> 0]
  /\ d.direction = IF item.direction.present THEN item.direction.s
                   ELSE "center"
  /\ d.risk = IF item.risk.present THEN item.risk.s ELSE "clear"

\* C13: default-filling: the stored detections are, in some order, the
\* elements of the objects array with each absent field replaced by its
\* default and each present field kept; {} gives the all-defaults detection.
C13_DefaultFilling ==
  (last.ev = "success" /\ input.objects.isArray) =>
    /\ Len(detections) = Len(input.objects.items)
    /\ \E f \in [DOMAIN detections -> DOMAIN detections] :
         /\ \A a, b \in DOMAIN detections : a # b => f[a] # f[b]
         /\ \A i \in DOMAIN detections :
              filled(detections[i], input.objects.items[f[i]])

\* C14: a successful response whose body is an object with the objects field
\* absent or not an array succeeds, sets no error and stores the empty list.
C14_NonArrayIsEmpty ==
  [][ \A i \in DOMAIN ops :
        (ops[i].pc = "json" /\ Completes(i) /\ ~input.isNull
           /\ ~input.objects.isArray) =>
          /\ last'.ev = "success"
          /\ error' = error
          /\ detections' = <<>> ]_vars

\* C14 witness: a body whose objects field is an object holding an element
\* has been applied over an earlier, non-empty list.
C14_Witness ==
  /\ last.ev = "success"
  /\ ~input.objects.isArray
  /\ input.objects.items # <<>>
  /\ detections = <<>>
  /\ error = ""

\* The call at i moves from awaiting fetch to awaiting the body.
ReadsBody(i) ==
  /\ i \in DOMAIN ops
  /\ Len(ops') = Len(ops)
  /\ ops[i].pc = "fetch" /\ ops'[i].pc = "json"

\* C15: a response with a non-2xx status is a hard failure: the body is not
\* read, detections, alert text and speech are left as they were, and the
\* error is "Server error: <status>"; a transport failure sets the error to
\* the message of the rejection (to the fixed fallback if it has none).
C15_HardFailure ==
  [][ \A i \in DOMAIN ops :
        (ops[i].pc = "fetch" /\ (Completes(i) \/ ReadsBody(i))) =>
          IF ReadsBody(i)
          THEN ops'[i].status >= 200 /\ ops'[i].status <= 299
          ELSE /\ Completes(i)
               /\ last'.ev = "fail"
               /\ ~(last'.status >= 200 /\ last'.status <= 299)
               /\ detections' = detections
               /\ alertText' = alertText
               /\ speech' = speech
               /\ (last'.status = 404 => error' = "Server error: 404")
               /\ (last'.status = 500 => error' = "Server error: 500")
               /\ (last'.status = 0 =>
                     error' \in {"Network request failed",
                                 "Unable to contact backend."}) ]_vars

\* C15 witness: a response with status 500 has just failed a call, and the
\* result of an earlier call is still stored.
C15_Witness ==
  /\ last.ev = "fail" /\ last.status = 500
  /\ error = "Server error: 500"
  /\ detections # <<>>
  /\ alertText # EmptyText

\* C16: a capture failure is handled like a backend failure: the call
\* returns from the capture without issuing a request, the error is the
\* message of the rejection, isSending is reset, the stored result is left
\* alone, and a polling cycle whose loop was not stopped sets the 1500 ms
\* timer.
C16_CaptureFailure ==
  [][ \A i \in DOMAIN ops :
        (ops[i].pc = "capture" /\ Completes(i)) =>
          /\ last'.ev = "fail"
          /\ error' = "Failed to capture image"
          /\ isSending' = FALSE
          /\ detections' = detections
          /\ alertText' = alertText
          /\ speech' = speech
          /\ IF ops[i].kind = "poll" /\ ~ops[i].cancelled
             THEN /\ isDetecting'
                  /\ \E t \in timers' :
                       /\ timers' = timers \cup {t}
                       /\ t \notin timers
                       /\ t.delay = 1500 /\ ~t.cancelled
             ELSE timers' = timers ]_vars

\* C16 witness: the capture of an active polling cycle has just failed and
\* the re-arm timer is pending.
C16_Witness ==
  /\ last = Event("fail", "poll", FALSE)
  /\ error = "Failed to capture image"
  /\ ~isSending
  /\ isDetecting
  /\ timers # {}

\* C17: alert pre-emption: the text-to-speech collaborator never holds more
\* than one utterance, and after a successful result with non-empty alert
\* text it holds exactly that text, whatever it was speaking before.
C17_AlertPreemption ==
  [][ /\ Len(speech') <= 1
      /\ (last'.ev = "success" /\ alertText' # EmptyText) =>
            speech' = <<alertText'>> ]_vars

\* C17 witness: a successful result with alert text has just been applied
\* and its utterance is the one being spoken.
C17_Witness ==
  /\ last.ev = "success"
  /\ alertText # EmptyText
  /\ speech = <<alertText>>

\* The body under study is an object and the text field the call at i reads
\* is absent from it.
textAbsent(i) ==
  /\ ~input.isNull
  /\ IF ops[i].kind = "query" THEN ~input.answer_text.present
     ELSE ~input.alert_text.present

\* C18 as stated: a successful result whose text field is absent stores the
\* empty alert text and leaves the speech collaborator alone, for a polling
\* cycle and for a smart query alike.
C18_AbsentTextIsSilent ==
  [][ \A i \in DOMAIN ops :
        (ops[i].pc = "json" /\ Completes(i) /\ textAbsent(i)) =>
          /\ alertText' = EmptyText
          /\ speech' = speech ]_vars

\* C18 amended: with alert_text absent a polling cycle stores the empty
\* alert text and leaves the speech collaborator alone; with answer_text
\* absent a smart query stores the question it sent and speaks it.
C18_AbsentTextAmended ==
  [][ \A i \in DOMAIN ops :
        (ops[i].pc = "json" /\ Completes(i) /\ textAbsent(i)) =>
          IF ops[i].kind = "query"
          THEN /\ ops[i].sent # EmptyText
               /\ alertText' = ops[i].sent
               /\ speech' = <<ops[i].sent>>
          ELSE /\ alertText' = EmptyText
               /\ speech' = speech ]_vars

\* C18 witness: a smart query whose response had no answer_text has just
\* been applied: the default question is stored and spoken.
C18_Witness ==
  /\ last.ev = "success" /\ last.kind = "query"
  /\ ~input.answer_text.present
  /\ alertText = DefaultQuestion
  /\ speech = <<DefaultQuestion>>

blank(q) == \A k \in DOMAIN q : q[k] = SP
spaces(n) == [k \in 1..n |-> SP]

\* C19: idle-query fallback: the question field of a smart-query request is
\* the fixed prompt when the typed question is empty or all whitespace, and
\* otherwise the typed question without its leading and trailing
\* whitespace.
C19_QuestionSent ==
  \A i \in DOMAIN ops :
    (ops[i].kind = "query" /\ ops[i].pc # "capture") =>
      LET q == ops[i].question
          sent == ops[i].sent
      IN IF blank(q)
         THEN sent = DefaultQuestion
         ELSE /\ sent # EmptyText
              /\ sent[1] # SP /\ sent[Len(sent)] # SP
              /\ \E a, b \in 0..Len(q) : q = spaces(a) \o sent \o spaces(b)

\* C19 witness: a request has been issued for a question typed with
\* whitespace around it.
C19_Witness ==
  \E i \in DOMAIN ops :
    /\ ops[i].kind = "query" /\ ops[i].pc = "fetch"
    /\ ops[i].question = <<SP, "door?", SP>>
    /\ ops[i].sent = <<"door?">>

\* C20: the error is cleared when a call starts and reflects only the
\* latest call: it is empty after a call that succeeded and is that call's
\* failure message after a call that failed.
C20_ErrorOfLatestCycle ==
  [][ /\ CaptureStarts => error' = ""
      /\ last'.ev = "success" => error' = ""
      /\ last'.ev = "fail" => error' \in FailureMessages ]_vars

C24_NoTimeout ==
  [][ \A i \in PollOps :
        ~Completes(i) =>
          /\ ~PollCaptureStarts
          /\ timers' \subseteq timers ]_vars

\* C26: a re-arm timer is never pending while a polling cycle is in flight.
C26_NoTimerInFlight == PollOps # {} => timers = {}

\* The position of an await in captureAndSend / handleSmartQuery.
rank(pc) == IF pc = "capture" THEN 1 ELSE IF pc = "fetch" THEN 2 ELSE 3

\* C27: no retry inside a cycle: a call never goes back to an await it has
\* passed, so it captures once and posts once; a failed cycle starts no
\* capture itself, and the next polling capture of the active loop comes
\* from the 1500 ms timer.
C27_NoRetry ==
  [][ /\ Len(ops') >= Len(ops) =>
           \A i \in DOMAIN ops :
             rank(ops'[i].pc) - rank(ops[i].pc) \in {0, 1}
      /\ last'.ev = "fail" => ~CaptureStarts
      /\ (isDetecting /\ PollCaptureStarts) =>
           \E t \in timers : t \notin timers' /\ t.delay = 1500 ]_vars

\* C27 witness: a polling cycle has failed with status 500 and nothing is
\* outstanding: only the timer will start the next capture.
C27_Witness ==
  /\ last.ev = "fail" /\ last.kind = "poll" /\ last.status = 500
  /\ ops = <<>>
  /\ Cardinality(timers) = 1

\* C28: detection is not started while a capture or request is
\* outstanding: isDetecting goes from false to true only in a state where
\* isSending is false and no call is outstanding.
C28_NoStartWhileOutstanding ==
  [][ (~isDetecting /\ isDetecting') =>
        /\ ~isSending
        /\ Outstanding = {} ]_vars

\* C29: when a timer of the running loop fires while the camera handle is
\* null, no capture starts, error, isSending, detections and alertText keep
\* their values, and the 1500 ms timer is set again.
C29_NoCameraCycle ==
  [][ (last'.ev = "timer" /\ ~last'.cancelled /\ ~cameraRef) =>
        /\ ops' = ops
        /\ error' = error
        /\ isSending' = isSending
        /\ detections' = detections
        /\ alertText' = alertText
        /\ isDetecting /\ isDetecting'
        /\ Cardinality(timers') = 1
        /\ \A t \in timers' : t.delay = 1500 /\ ~t.cancelled ]_vars

\* C29 witness: a timer has just fired with the camera view not mounted
\* (no session) and the loop has set its timer again.
C29_Witness ==
  /\ last.ev = "timer" /\ ~last.cancelled
  /\ ~cameraRef
  /\ isDetecting
  /\ timers # {}

\* C30: in every state in which camera permission is not granted,
\* detection is inactive and no timer is pending.
C30_PermissionWatchdog ==
  permission # "granted" => (~isDetecting /\ timers = {})

\* C30 witness: permission was revoked while a polling cycle was in flight:
\* detection is off, no timer is pending and the cycle is still outstanding.
C30_Witness ==
  /\ permission = "denied"
  /\ ~isDetecting
  /\ timers = {}
  /\ \E i \in DOMAIN ops : ops[i].kind = "poll" /\ ops[i].cancelled

\* C22: a 2xx response with a JSON body of any shape never produces an
\* error: the call that reads it completes as a success and the error stays
\* empty.
C22_MalformedBodyTolerated ==
  [][ \A i \in DOMAIN ops :
        (ops[i].pc = "json" /\ Completes(i)) =>
          /\ last'.ev = "success"
          /\ error' = "" ]_vars

\* C23: after the unmount (the unmounting step included) no timer is
\* pending, so none fires, and no capture is started, also when a cycle was
\* in flight at the unmount.
C23_UnmountCancelsLoop ==
  [][ ~mounted' => (timers' = {} /\ ~CaptureStarts) ]_vars

\* C23 witness: a polling cycle that was in flight at the unmount has
\* returned in the unmounted component and no timer is pending.
C23_Witness ==
  /\ ~mounted
  /\ last.ev = "dropped" /\ last.kind = "poll"
  /\ timers = {}

\* A polling cycle that its effect instance has not cancelled has completed.
CycleCompleted ==
  /\ last.ev \in {"success", "fail"}
  /\ last.kind = "poll"
  /\ ~last.cancelled

\* The call started last is a polling cycle at its capture.
NewestIsPollCapture ==
  /\ ops # <<>>
  /\ ops[Len(ops)].kind = "poll"
  /\ ops[Len(ops)].pc = "capture"

\* C25: progress: while detection stays active and every call settles, every
\* completed polling cycle is followed by a timer callback that starts the
\* capture of another cycle.
C25_Progress ==
  CycleCompleted ~>
    (~isDetecting \/ (last.ev = "timer" /\ NewestIsPollCapture))

\* C25 amended: every completed polling cycle is followed by another run of
\* runCycle, which starts a capture if the camera view is rendered.
C25_ProgressAmended ==
  CycleCompleted ~>
    (~isDetecting \/
     (last.ev = "timer" /\ (cameraRef => NewestIsPollCapture)))

\* A cycle has completed and set its timer while the camera view is gone
\* (the session was lost during the cycle).
C25_Witness ==
  /\ CycleCompleted
  /\ isDetecting
  /\ ~cameraRef
  /\ \E t \in timers : ~t.cancelled

\* A press of handleToggleDetection returns in this step.
PressReturns ==
  \/ request # "none" /\ request' = "none"
  \/ last'.ev \in {"start", "stop"} /\ last'.kind = "idle"

\* C31: a press of handleToggleDetection flips isDetecting exactly once when
\* permission is granted at the press or the renewed request is granted, and
\* leaves it unchanged when permission is unknown or the renewed request is
\* refused; isDetecting never becomes true without permission granted.
C31_ToggleOnlyWhenGranted ==
  [][ /\ PressReturns =>
           IF permission = "granted" \/
              (request = "denied" /\ permission' = "granted")
           THEN isDetecting' = ~isDetecting /\ permission' = "granted"
           ELSE isDetecting' = isDetecting
      /\ (request = "none" /\ request' # "none") =>
           isDetecting' = isDetecting
      /\ (isDetecting' /\ ~isDetecting) =>
           (PressReturns /\ permission' = "granted") ]_vars

\* The renewed request was granted and the press has started the loop.
C31_Witness ==
  /\ last.ev = "start"
  /\ last.kind = "renewed"
  /\ isDetecting
  /\ permission = "granted"
  /\ PollOps # {}

\* A press made with permission unknown has returned after the request was
\* granted, and detection is still off.
C31_WitnessUnknown ==
  /\ last.kind = "returned"
  /\ permission = "granted"
  /\ ~isDetecting

\* A smart query starts, goes on to its request or its body, or returns in
\* this step.
QueryStep ==
  \/ CaptureStarts /\ ops'[Len(ops')].kind = "query"
  \/ \E i \in QueryOps :
       \/ Completes(i)
       \/ Len(ops') = Len(ops) /\ ops'[i].pc # ops[i].pc

\* C32: a smart query is a one-shot: no step of handleSmartQuery sets or
\* clears a timer, changes the timer handle or changes isDetecting, whether
\* the query succeeds or fails.
C32_QueryOneShot ==
  [][ QueryStep =>
        /\ timers' = timers
        /\ detectionLoopRef' = detectionLoopRef
        /\ isDetecting' = isDetecting ]_vars

\* A smart query has returned while the loop's timer is pending.
C32_Witness ==
  /\ last.ev \in {"success", "fail"}
  /\ last.kind = "query"
  /\ isDetecting
  /\ \E t \in timers : ~t.cancelled /\ t.id = detectionLoopRef

\* A call issues its backend request in this step.
RequestSent ==
  \E i \in DOMAIN ops :
     /\ Len(ops') = Len(ops)
     /\ ops[i].pc = "capture"
     /\ ops'[i].pc = "fetch"

NoSession == screen = "query" /\ ~session

\* C33: while the query screen holds no session, no capture starts and no
\* backend request is sent, even if isDetecting is still true.
C33_NothingWithoutSession ==
  [][ NoSession => (~CaptureStarts /\ ~RequestSent) ]_vars

\* C33 amended: while the query screen holds no session no call starts; a
\* request sent then belongs to a call that started its capture while the
\* camera view was rendered.
C33_NoCallWithoutSession ==
  [][ /\ NoSession => ~CaptureStarts
      /\ CaptureStarts => cameraRef ]_vars

\* The loop has run a cycle without a session: nothing was captured and the
\* timer is set again.
C33_Witness ==
  /\ NoSession
  /\ permission = "granted"
  /\ isDetecting
  /\ last.ev = "timer"
  /\ ops = <<>>
  /\ timers # {}

\* Recording.createAsync calls that have not settled.
Creating == {i \in DOMAIN calls : calls[i].pc = "create"}

\* C34: at most one recording at a time: the Recording objects that exist
\* (created, not yet unloaded) and those being created are never more than
\* one.
C34_OneRecording == Cardinality(recorders) + Cardinality(Creating) <= 1

\* C35: whenever isRecording is true, a Recording object is held in state.
C35_RecordingHeld == isRecording => recording # 0

\* processAudio (the call in slot i) returns in this step.
ProcessReturns(i) ==
  /\ i \in DOMAIN calls
  /\ calls[i].fn = "process"
  /\ calls' = removeAt(calls, i)

\* C36: processAudio fails on a non-2xx status, on a transport failure and
\* on a 2xx body with an error message: the error is set, speakers is left
\* unchanged and isProcessing is false; otherwise it succeeds: the error is
\* empty, speakers is the returned list (empty when the field is absent) and
\* isProcessing is false.
C36_ProcessAudioOutcome ==
  [][ \A i \in DOMAIN calls : ProcessReturns(i) =>
        /\ isProcessing' = FALSE
        /\ lastAudio'.ev \in {"fail", "success"}
        /\ calls[i].pc = "fetch" => lastAudio'.ev = "fail"
        /\ calls[i].pc = "json" =>
             (lastAudio'.ev = "fail" <=> truthy(lastAudio'.json.error))
        /\ IF lastAudio'.ev = "fail"
           THEN /\ audioError' # ""
                /\ speakers' = speakers
           ELSE /\ audioError' = ""
                /\ speakers' = IF lastAudio'.json.speakers.present
                               THEN lastAudio'.json.speakers.items
                               ELSE <<>> ]_vars
====
